---- MODULE Spec2Model ----
(***************************************************************************)
(* DataFixer: the analysis-and-cleaning engine of backend/main.py and the  *)
(* lightweight issue detector of backend/detection.py.                     *)
(*                                                                         *)
(* One uploaded file (delimited text or a list of structured records) is   *)
(* loaded into a DataFrame; the handlers profile it, preview a cleaning,   *)
(* clean it, or run the detector on the raw data.                          *)
(*                                                                         *)
(* pandas semantics assumed: the 1.x / 2.x behaviour without copy-on-write,*)
(* under which df[col].fillna(v, inplace=True) on a cached column updates  *)
(* the parent frame; numpy scalar division by zero yields nan.             *)
(***************************************************************************)
EXTENDS Integers, Sequences, FiniteSets, TLC

(***************************************************************************)
(* Bounds of the model.                                                    *)
(***************************************************************************)
\* largest number of data rows (records) of an uploaded file
MaxRows == 3

(***************************************************************************)
(* Cell values: number (a reduced rational n/d), string (a sequence of     *)
(* one-character strings), null (NaN / None), and, only inside a raw       *)
(* structured record, "absent" (the record does not carry the key).        *)
(***************************************************************************)
Null == [t |-> "null", n |-> 0, d |-> 1, s |-> <<>>]

Absent == [t |-> "absent", n |-> 0, d |-> 1, s |-> <<>>]

Num(n, d) == [t |-> "num", n |-> n, d |-> d, s |-> <<>>]

Str(s) == [t |-> "str", n |-> 0, d |-> 1, s |-> s]

\* the placeholder the cleaning engine writes into an all-null text column
Unknown == <<"U", "n", "k", "n", "o", "w", "n">>

\* Series.isnull() on one cell
isnull(c) == c.t = "null"

RECURSIVE GCD(_, _)
GCD(a, b) == IF b = 0 THEN a ELSE GCD(b, a % b)

\* a rational in lowest terms (d > 0, n >= 0 in this model)
Rat(n, d) == LET g == GCD(n, d) IN Num(n \div g, d \div g)

\* code point of a character
Ord(c) ==
    CASE c = " " -> 32
      [] c = "-" -> 45
      [] c = "0" -> 48
      [] c = "1" -> 49
      [] c = "2" -> 50
      [] c = "3" -> 51
      [] c = "4" -> 52
      [] c = "5" -> 53
      [] c = "6" -> 54
      [] c = "7" -> 55
      [] c = "8" -> 56
      [] c = "9" -> 57
      [] c = ":" -> 58
      [] c = "A" -> 65
      [] c = "B" -> 66
      [] c = "U" -> 85
      [] c = "_" -> 95
      [] c = "a" -> 97
      [] c = "b" -> 98
      [] c = "d" -> 100
      [] c = "e" -> 101
      [] c = "k" -> 107
      [] c = "m" -> 109
      [] c = "n" -> 110
      [] c = "o" -> 111
      [] c = "u" -> 117
      [] c = "w" -> 119

\* s < t in Python's string order (by code point, a proper prefix first)
RECURSIVE StrLess(_, _)
StrLess(s, t) ==
    IF t = <<>> THEN FALSE
    ELSE IF s = <<>> THEN TRUE
    ELSE IF Head(s) = Head(t) THEN StrLess(Tail(s), Tail(t))
    ELSE Ord(Head(s)) < Ord(Head(t))

Range(f) == {f[i] : i \in DOMAIN f}

\* the concatenation of a sequence of sequences
RECURSIVE Concat(_)
Concat(ss) == IF ss = <<>> THEN <<>> ELSE Head(ss) \o Concat(Tail(ss))

\* the subsequence of s at the positions whose index satisfies keep
RECURSIVE PickIdx(_, _, _)
PickIdx(s, keep, i) ==
    IF i > Len(s) THEN <<>>
    ELSE (IF keep[i] THEN <<s[i]>> ELSE <<>>) \o PickIdx(s, keep, i + 1)

(***************************************************************************)
(* The uploaded data.  A delimited-text file is a header and rows; a       *)
(* structured-record file is a list of records over the keys JsonKeys, a   *)
(* record listing, per key, its value or Absent.                           *)
(***************************************************************************)
StrA == <<"a">>

StrSpA == <<" ", "a">>

\* the values a field of the first / second column (key) can hold
ColValues == << {Null, Num(1, 1), Num(2, 1)}, {Null, Str(StrA), Str(StrSpA)} >>

\* the values a record can hold under the first / second key
KeyValues == << {Absent, Null, Num(1, 1)}, {Absent, Null, Str(StrA)} >>

\* the keys of the structured records, in the order a record lists them
JsonKeys == << <<"a">>, <<"b">> >>

\* the header rows of the delimited-text files: labels in need of cleaning,
\* which the cleaning makes equal
CsvHeaders == { << <<"A", " ">>, <<" ", "a">> >> }

NCols == Len(JsonKeys)

AllValues == UNION Range(ColValues)

CsvRows == [1..NCols -> AllValues]

CsvRowOK(r) == \A j \in 1..NCols : r[j] \in ColValues[j]

JsonRowOK(r) == \A j \in 1..NCols : r[j] \in KeyValues[j]

RowSeqs(S) == UNION {[1..k -> S] : k \in 0..MaxRows}

\* a header row whose first cell is blank, as read_csv labels it
UnnamedHeader == << <<"U", "n", "n", "a", "m", "e", "d", ":", " ", "0">>, <<"b">> >>

\* rows without a null whose text differs in capitalization only
CaseRows == { <<n, s>> : n \in {Num(1, 1), Num(2, 1)}, s \in {Str(StrA), Str(<<"A">>)} }

\* records without a null whose text is a digit or a letter
DigitRecords == { <<Num(1, 1), s>> : s \in {Str(<<"1">>), Str(StrA)} }

CsvFiles ==
    [columns : CsvHeaders, rows : RowSeqs({r \in CsvRows : CsvRowOK(r)})]
    \cup [columns : {UnnamedHeader},
          rows : UNION {[1..k -> CaseRows] : k \in 1..(MaxRows + 1)}]

\* lists of records are one record shorter than the delimited-text files
JsonFiles ==
    UNION {[1..k -> {r \in [1..NCols -> UNION Range(KeyValues)] : JsonRowOK(r)}] :
              k \in 0..(MaxRows - 1)}
    \cup UNION {[1..k -> DigitRecords] : k \in 1..MaxRows}

(***************************************************************************)
(* DataFrame: column labels, one dtype per column ("num" for int64 or      *)
(* float64, "obj" for object) and the rows, each a tuple of cells.         *)
(***************************************************************************)
\* the sequence f[i], ..., f[n] as an explicit tuple
RECURSIVE Tup(_, _, _)
Tup(f, i, n) == IF i > n THEN <<>> ELSE <<f[i]>> \o Tup(f, i + 1, n)

RECURSIVE TupRows(_, _, _, _)
TupRows(rows, i, n, width) ==
    IF i > n THEN <<>>
    ELSE <<Tup(rows[i], 1, width)>> \o TupRows(rows, i + 1, n, width)

Frame(columns, dtypes, rows) ==
    LET width == Len(columns)
    IN [columns |-> Tup(columns, 1, width),
        dtypes |-> Tup(dtypes, 1, width),
        rows |-> TupRows(rows, 1, Len(rows), width)]

\* len(df)
NRows(df) == Len(df.rows)

\* the cells of the column at position j
ColumnAt(df, j) == Tup([i \in 1..NRows(df) |-> df.rows[i][j]], 1, NRows(df))

\* pd.read_csv: the dtype inferred for a parsed column (a column of a file
\* without data rows is object; an all-empty column is float64)
CsvDtype(cells) ==
    IF \E i \in DOMAIN cells : cells[i].t = "str" THEN "obj"
    ELSE IF cells = <<>> THEN "obj"
    ELSE "num"

\* pd.read_csv(StringIO(txt), sep=None, engine='python')
read_csv(file) ==
    Frame(file.columns,
          [j \in 1..Len(file.columns) |->
              CsvDtype([i \in 1..Len(file.rows) |-> file.rows[i][j]])],
          file.rows)

\* the keys a record carries, in its own order
ItemKeys(item) ==
    PickIdx(JsonKeys, [j \in 1..NCols |-> item[j] # Absent], 1)

\* the union of the records' keys in first-seen order
RECURSIVE UnionKeys(_, _, _)
UnionKeys(records, i, seen) ==
    IF i > Len(records) THEN seen
    ELSE LET ks == ItemKeys(records[i])
             new == PickIdx(ks, [j \in 1..Len(ks) |-> ks[j] \notin Range(seen)], 1)
         IN UnionKeys(records, i + 1, seen \o new)

KeyIndex(k) == CHOOSE j \in 1..NCols : JsonKeys[j] = k

\* the dtype pandas settles on for a column built from record values: object
\* when a string occurs, a number dtype when a number occurs or when a key is
\* absent somewhere (NaN), object when every value is an explicit null
JsonDtype(raw) ==
    IF \E i \in DOMAIN raw : raw[i].t = "str" THEN "obj"
    ELSE IF \E i \in DOMAIN raw : raw[i].t = "num" THEN "num"
    ELSE IF \E i \in DOMAIN raw : raw[i].t = "absent" THEN "num"
    ELSE "obj"

\* pd.DataFrame(obj) for a list of records: an absent key and an explicit
\* null both become a null cell
DataFrame(records) ==
    LET cols == UnionKeys(records, 1, <<>>)
        raw(j) == [i \in 1..Len(records) |-> records[i][KeyIndex(cols[j])]]
    IN Frame(cols,
             [j \in 1..Len(cols) |-> JsonDtype(raw(j))],
             [i \in 1..Len(records) |->
                 [j \in 1..Len(cols) |->
                     LET v == records[i][KeyIndex(cols[j])]
                     IN IF v = Absent THEN Null ELSE v]])

\* the loader shared by the three handlers
LoadFrame(ft, file) == IF ft = "csv" THEN read_csv(file) ELSE DataFrame(file)

(***************************************************************************)
(* pandas operations used by the handlers.                                 *)
(***************************************************************************)
\* df.empty
empty(df) == NRows(df) = 0 \/ Len(df.columns) = 0

\* df.duplicated(): row i repeats an earlier row (nulls compare equal); an
\* empty frame has no duplicated row
duplicated(df) ==
    [i \in 1..NRows(df) |->
        ~empty(df) /\ \E k \in 1..(i - 1) : df.rows[k] = df.rows[i]]

\* number of TRUE entries of a boolean sequence
CountTrue(b) == Cardinality({i \in DOMAIN b : b[i]})

\* df.drop_duplicates(): keeps the first occurrence of every row; an empty
\* frame is returned as it is
drop_duplicates(df) ==
    IF empty(df) THEN df
    ELSE LET dup == duplicated(df)
         IN Frame(df.columns, df.dtypes,
                  PickIdx(df.rows, [i \in 1..NRows(df) |-> ~dup[i]], 1))

\* variant: the count misses the first row
isnull_sum_skip_first(df, j) ==
    Cardinality({i \in 2..NRows(df) : isnull(df.rows[i][j])})

\* df[col].isnull().sum() for the column at position j
isnull_sum(df, j) == Cardinality({i \in 1..NRows(df) : isnull(df.rows[i][j])})

\* number of columns labelled name (collections.Counter(df.columns)[name])
column_counts(df, name) ==
    Cardinality({j \in 1..Len(df.columns) : df.columns[j] = name})

\* some label occurs twice, so that df[col] is a frame and not a column
HasDuplicateLabels(df) ==
    \E j \in 1..Len(df.columns) : column_counts(df, df.columns[j]) > 1

\* the frame restricted to the columns whose position satisfies keep
KeepColumns(df, keep) ==
    Frame(PickIdx(df.columns, keep, 1),
          PickIdx(df.dtypes, keep, 1),
          [i \in 1..NRows(df) |-> PickIdx(df.rows[i], keep, 1)])

\* df.drop(columns=names)
drop(df, names) ==
    KeepColumns(df, [j \in 1..Len(df.columns) |-> df.columns[j] \notin Range(names)])

\* variant: the fill reaches a temporary copy of the column and is lost
fillna_on_copy(c, v) == c

\* Series.fillna(v)
fillna(c, v) == IF isnull(c) THEN v ELSE c

(***************************************************************************)
(* Statistics of a column.                                                 *)
(***************************************************************************)
\* the non-null cells of a column, in row order
dropna(cells) == PickIdx(cells, [i \in 1..Len(cells) |-> ~isnull(cells[i])], 1)

RatLess(x, y) == x.n * y.d < y.n * x.d

RECURSIVE SumRat(_)
SumRat(cells) ==
    IF cells = <<>> THEN Num(0, 1)
    ELSE LET h == Head(cells)
             r == SumRat(Tail(cells))
         IN Rat(h.n * r.d + r.n * h.d, h.d * r.d)

\* Series.mean(): nulls skipped; NaN (null) when no value is left
mean(cells) ==
    LET vals == dropna(cells)
        sum == SumRat(vals)
    IN IF vals = <<>> THEN Null ELSE Rat(sum.n, sum.d * Len(vals))

\* the k-th smallest of a non-empty sequence of numbers
Kth(vals, k) ==
    CHOOSE v \in Range(vals) :
        /\ Cardinality({i \in DOMAIN vals : RatLess(vals[i], v)}) < k
        /\ Cardinality({i \in DOMAIN vals : ~RatLess(v, vals[i])}) >= k

\* Series.median(): nulls skipped; NaN (null) when no value is left
median(cells) ==
    LET vals == dropna(cells)
        m == Len(vals)
        lo == Kth(vals, (m + 1) \div 2)
        hi == Kth(vals, (m + 2) \div 2)
    IN IF vals = <<>> THEN Null ELSE Rat(lo.n * hi.d + hi.n * lo.d, 2 * lo.d * hi.d)

\* how often v occurs in a sequence
Occurrences(vals, v) == Cardinality({i \in DOMAIN vals : vals[i] = v})

\* Series.mode()[0]: the most frequent value, the smallest one on a tie
mode0(vals) ==
    LET most == {v \in Range(vals) :
                    \A w \in Range(vals) : Occurrences(vals, w) <= Occurrences(vals, v)}
    IN CHOOSE v \in most : \A w \in most : w = v \/ StrLess(v.s, w.s)

(***************************************************************************)
(* Text normalisation.                                                     *)
(***************************************************************************)
RECURSIVE lstrip(_)
lstrip(s) ==
    IF s # <<>> /\ Head(s) = " " THEN lstrip(Tail(s)) ELSE s

RECURSIVE rstrip(_)
rstrip(s) ==
    IF s # <<>> /\ s[Len(s)] = " " THEN rstrip(SubSeq(s, 1, Len(s) - 1)) ELSE s

\* str.strip()
strip(s) == rstrip(lstrip(s))

\* str.lower() on one character
LowerChar(c) ==
    CASE c = "A" -> "a"
      [] c = "B" -> "b"
      [] c = "U" -> "u"
      [] OTHER -> c

\* the characters the pattern [^a-z0-9_] leaves in place
NameChars == {"a", "b", "d", "e", "k", "m", "n", "o", "u", "w", "0", "1", "2", "_"}

\* .str.strip().str.lower().str.replace(' ', '_').str.replace(r'[^a-z0-9_]', '')
clean_name(name) ==
    LET s1 == strip(name)
        s2 == [i \in 1..Len(s1) |-> LowerChar(s1[i])]
        s3 == [i \in 1..Len(s2) |-> IF s2[i] = " " THEN "_" ELSE s2[i]]
    IN PickIdx(s3, [i \in 1..Len(s3) |-> s3[i] \in NameChars], 1)

\* Series.astype(str) on one cell of an object column (the object columns of
\* the loaded files hold strings and nulls)
astype_str(c) ==
    CASE c.t = "str" -> c
      [] c.t = "null" -> Str(<<"n", "a", "n">>)

(***************************************************************************)
(* Cleaning configuration.  A threshold is the fraction num/den.           *)
(***************************************************************************)
Thresholds == { <<0, 1>>, <<3, 5>>, <<1, 1>> }

FillStrategies == {"auto", "drop", "fill"}

\* variant: a column is dropped only strictly above the threshold
MissingAbove(missing_count, total, thr) ==
    total # 0 /\ missing_count * thr[2] > thr[1] * total

\* missing_count / len(df) >= missing_threshold; with len(df) = 0 the quotient
\* of the numpy scalar is nan and the comparison is False
MissingAtLeast(missing_count, total, thr) ==
    total # 0 /\ missing_count * thr[2] >= thr[1] * total

\* missing_count / len(df) < missing_threshold (False for nan)
MissingBelow(missing_count, total, thr) ==
    total # 0 /\ missing_count * thr[2] < thr[1] * total

(***************************************************************************)
(* perform_standard_cleaning.  The working frame df_cleaned is tracked     *)
(* together with the caller's frame: an in-place operation on the working  *)
(* frame reaches the caller's frame while the two are the same object.     *)
(***************************************************************************)
\* variant: no copy is taken, the working frame is the caller's frame
df_alias(df) ==
    [w |-> df, inp |-> df, alias |-> TRUE,
     src |-> Tup([j \in 1..Len(df.columns) |-> j], 1, Len(df.columns))]

\* df.copy(): a new object holding the same data.  src lists, for every
\* column of the working frame, its position in the caller's frame.
df_copy(df) ==
    [w |-> df, inp |-> df, alias |-> FALSE,
     src |-> Tup([j \in 1..Len(df.columns) |-> j], 1, Len(df.columns))]

\* an operation that changes the working frame in place
InPlace(st, frame) ==
    [w |-> frame, inp |-> IF st.alias THEN frame ELSE st.inp,
     alias |-> st.alias, src |-> st.src]

\* df_cleaned = <new frame>: the name is bound to a new object
Rebind(st, frame, src) ==
    [w |-> frame, inp |-> st.inp, alias |-> FALSE, src |-> src]

\* lines 173-183: the labels of the columns whose missing fraction, over the
\* rows of the working frame, reaches the threshold
columns_to_drop(df, thr) ==
    PickIdx(df.columns,
            [j \in 1..Len(df.columns) |->
                MissingAtLeast(isnull_sum(df, j), NRows(df), thr)], 1)

\* lines 187-188
DropHighMissing(st, thr, fs) ==
    LET names == columns_to_drop(st.w, thr)
        keep == [j \in 1..Len(st.w.columns) |-> st.w.columns[j] \notin Range(names)]
    IN IF fs # "fill" /\ names # <<>>
       THEN Rebind(st, drop(st.w, names), PickIdx(st.src, keep, 1))
       ELSE st

\* variant: the mean is used without the median / 0 fallback
NumericFillMeanOnly(cells) == mean(cells)

\* lines 196-208: the value a numeric column with nulls is filled with
NumericFillValue(cells) ==
    LET col_mean == mean(cells)
        col_median == median(cells)
    IN IF isnull(col_mean)
       THEN (IF isnull(col_median) THEN Num(0, 1) ELSE col_median)
       ELSE col_mean

\* lines 219-230: the value an object column with nulls is filled with
ObjectFillValue(cells) ==
    LET non_null_values == dropna(cells)
    IN IF Len(non_null_values) > 0 THEN mode0(non_null_values) ELSE Str(Unknown)

\* lines 192-212: fill the nulls of the numeric columns
FillNumeric(df) ==
    LET width == Len(df.columns)
        v == Tup([j \in 1..width |->
                     IF df.dtypes[j] = "num" /\ isnull_sum(df, j) > 0
                     THEN NumericFillValue(ColumnAt(df, j))
                     ELSE Null], 1, width)
    IN Frame(df.columns, df.dtypes,
             [i \in 1..NRows(df) |->
                 [j \in 1..width |-> fillna(df.rows[i][j], v[j])]])

\* lines 215-235: fill the nulls of the object columns
FillObject(df) ==
    LET width == Len(df.columns)
        v == Tup([j \in 1..width |->
                     IF df.dtypes[j] = "obj" /\ isnull_sum(df, j) > 0
                     THEN ObjectFillValue(ColumnAt(df, j))
                     ELSE Null], 1, width)
    IN Frame(df.columns, df.dtypes,
             [i \in 1..NRows(df) |->
                 [j \in 1..width |-> fillna(df.rows[i][j], v[j])]])

\* lines 238-242: df_cleaned[col] = df_cleaned[col].astype(str).str.strip()
StripObject(df) ==
    Frame(df.columns, df.dtypes,
          [i \in 1..NRows(df) |->
              [j \in 1..Len(df.columns) |->
                  IF df.dtypes[j] = "obj"
                  THEN LET c == astype_str(df.rows[i][j]) IN Str(strip(c.s))
                  ELSE df.rows[i][j]]])

\* lines 245-250
CleanColumnNames(df) ==
    Frame([j \in 1..Len(df.columns) |-> clean_name(df.columns[j])],
          df.dtypes, df.rows)

NoFrame == Frame(<<>>, <<>>, <<>>)

\* perform_standard_cleaning(df, missing_threshold, fill_strategy): whether
\* it raised, the frame it returned, the caller's frame after the call, and
\* the positions (in the caller's frame) of the columns it returned.
\* With a repeated label df_cleaned[col] is a frame, missing_pct a Series,
\* and the test of line 182 raises ValueError.
perform_standard_cleaning(df, thr, fs) ==
    LET s0 == df_copy(df)
        s1 == InPlace(s0, drop_duplicates(s0.w))
        s2 == DropHighMissing(s1, thr, fs)
        s3 == InPlace(s2, FillNumeric(s2.w))
        s4 == InPlace(s3, FillObject(s3.w))
        s5 == InPlace(s4, StripObject(s4.w))
        s6 == InPlace(s5, CleanColumnNames(s5.w))
    IN IF HasDuplicateLabels(s1.w)
       THEN [raised |-> TRUE, cleaned |-> NoFrame, input |-> s1.inp, kept |-> <<>>]
       ELSE [raised |-> FALSE, cleaned |-> s6.w, input |-> s6.inp, kept |-> s6.src]

(***************************************************************************)
(* generate_data_report.                                                   *)
(***************************************************************************)
\* round(missing_count / len(df) * 100, 2), in hundredths of a percent
missing_percentage(missing_count, total) ==
    (2 * missing_count * 10000 + total) \div (2 * total)

\* col_data.nunique(): distinct non-null values
nunique(cells) == Cardinality(Range(dropna(cells)))

\* Series.quantile(q) for q = qn/4 with linear interpolation between the
\* order statistics, nulls skipped; a fraction n/d, not reduced
quantile(cells, qn) ==
    LET vals == dropna(cells)
        m == Len(vals)
        lo == Kth(vals, ((qn * (m - 1)) \div 4) + 1)
        f == (qn * (m - 1)) % 4
        hi == IF f = 0 THEN lo ELSE Kth(vals, ((qn * (m - 1)) \div 4) + 2)
    IN [n |-> (4 - f) * lo.n * hi.d + f * hi.n * lo.d, d |-> 4 * lo.d * hi.d]

\* lines 71-79: the cells strictly outside [q1 - 1.5 iqr, q3 + 1.5 iqr]; the
\* quantiles of a column without a value are nan and every comparison False
outlier_count(dtype, cells) ==
    IF dtype # "num" \/ dropna(cells) = <<>> THEN 0
    ELSE LET q1 == quantile(cells, 1)
             q3 == quantile(cells, 3)
             iqr == [n |-> q3.n * q1.d - q1.n * q3.d, d |-> q1.d * q3.d]
             lower_bound == [n |-> 2 * q1.n * iqr.d - 3 * iqr.n * q1.d,
                             d |-> 2 * q1.d * iqr.d]
             upper_bound == [n |-> 2 * q3.n * iqr.d + 3 * iqr.n * q3.d,
                             d |-> 2 * q3.d * iqr.d]
         IN Cardinality({i \in DOMAIN cells :
                            /\ ~isnull(cells[i])
                            /\ \/ RatLess(cells[i], lower_bound)
                               \/ RatLess(upper_bound, cells[i])})

\* str.lower()
lower(s) == [i \in 1..Len(s) |-> LowerChar(s[i])]

\* lines 84-94: the share of distinct values that lowercasing merges is at
\* least 0.2
mixed_capitalization(dtype, cells) ==
    /\ dtype = "obj"
    /\ LET vals == dropna(cells)
           unique_values == nunique(cells)
           lower_unique == Cardinality({lower(vals[i].s) : i \in DOMAIN vals})
       IN unique_values > 0 /\ 5 * (unique_values - lower_unique) >= unique_values

Digits == {"0", "1", "2", "3", "4", "5", "6", "7", "8", "9"}

\* pd.to_numeric(errors='coerce') yields a number for the cell: a number, or
\* a string made of digits (the other strings of the model hold a letter)
to_numeric_ok(c) ==
    \/ c.t = "num"
    \/ c.t = "str" /\ c.s # <<>> /\ \A i \in DOMAIN c.s : c.s[i] \in Digits

\* lines 96-99: more than 90% of the cells coerce to a number
is_numeric_like(dtype, cells) ==
    /\ dtype = "obj"
    /\ LET n == IF Len(cells) > 1 THEN Len(cells) ELSE 1
           failed == Cardinality({i \in DOMAIN cells : ~to_numeric_ok(cells[i])})
       IN 10 * (n - failed) > 9 * n

\* one entry of reasons or of the recommendations: the message, the number
\* and the column label it is formatted with
Message(kind, n, column) == [kind |-> kind, n |-> n, column |-> column]

\* lines 103-111
profile_reasons(pct, mixed, outliers, numeric_like) ==
    (IF pct > 2000 THEN <<Message("High missing rate", pct, <<>>)>> ELSE <<>>)
    \o (IF mixed THEN <<Message("Inconsistent capitalization", 0, <<>>)>> ELSE <<>>)
    \o (IF outliers > 0 THEN <<Message("potential outliers", outliers, <<>>)>> ELSE <<>>)
    \o (IF numeric_like THEN <<Message("Numeric-looking strings", 0, <<>>)>> ELSE <<>>)

\* lines 59-118: the profile of the column at position j
column_profile(df, j) ==
    LET cells == ColumnAt(df, j)
        missing_count == isnull_sum(df, j)
        pct == missing_percentage(missing_count, NRows(df))
        outliers == outlier_count(df.dtypes[j], cells)
        mixed == mixed_capitalization(df.dtypes[j], cells)
        numeric_like == is_numeric_like(df.dtypes[j], cells)
        reasons == profile_reasons(pct, mixed, outliers, numeric_like)
        repeated == column_counts(df, df.columns[j]) > 1
    IN [column |-> df.columns[j],
        dtype |-> df.dtypes[j],
        missing_values |-> missing_count,
        missing_percentage |-> pct,
        unique_values |-> nunique(cells),
        outlier_count |-> outliers,
        mixed_capitalization |-> mixed,
        is_numeric_like |-> numeric_like,
        has_problem |-> IF repeated THEN TRUE ELSE missing_count > 0,
        reasons |->
            IF repeated
            THEN reasons \o <<Message("Duplicate column name", 0, df.columns[j])>>
            ELSE reasons]

\* generate_data_report(df).  With at least one column it raises when the
\* frame has no row (ZeroDivisionError, line 65) or a repeated label
\* (int() of a Series, line 61); column_details lists the profiles in
\* insertion order.
generate_data_report(df) ==
    IF Len(df.columns) > 0 /\ (NRows(df) = 0 \/ HasDuplicateLabels(df))
    THEN [raised |-> TRUE]
    ELSE [raised |-> FALSE,
          overview |->
              [rows |-> NRows(df),
               columns |-> Len(df.columns),
               total_missing_values |->
                   Cardinality({p \in (1..NRows(df)) \X (1..Len(df.columns)) :
                                   isnull(df.rows[p[1]][p[2]])}),
               duplicate_rows |-> CountTrue(duplicated(df))],
          column_details |->
              Tup([j \in 1..Len(df.columns) |-> column_profile(df, j)],
                  1, Len(df.columns))]

\* s.startswith(prefix)
startswith(s, prefix) ==
    Len(s) >= Len(prefix) /\ SubSeq(s, 1, Len(prefix)) = prefix

\* lines 138-145: the suggestions made for one column profile
column_recommendations(details) ==
    (IF details.missing_percentage > 2000
     THEN <<Message("Consider dropping it", details.missing_percentage, details.column)>>
     ELSE <<>>)
    \o (IF details.mixed_capitalization
        THEN <<Message("Standardize it", 0, details.column)>> ELSE <<>>)
    \o (IF details.is_numeric_like
        THEN <<Message("Convert its data type", 0, details.column)>> ELSE <<>>)
    \o (IF details.outlier_count > 0
        THEN <<Message("potential outliers", details.outlier_count, details.column)>>
        ELSE <<>>)

\* the message of line 148
GoodNews == Message("Good News: No major data quality issues found!", 0, <<>>)

\* variant: the positive message is appended whatever was suggested
recommendations_with_good_news(df, report) ==
    Concat([j \in 1..Len(report.column_details) |->
               column_recommendations(report.column_details[j])])
    \o <<GoodNews>>

\* generate_recommendations(df, report)
generate_recommendations(df, report) ==
    LET n == Len(report.column_details)
        recommendations ==
            (IF report.overview.duplicate_rows > 0
             THEN <<Message("Consider removing them", report.overview.duplicate_rows, <<>>)>>
             ELSE <<>>)
            \o (IF report.overview.total_missing_values > 0
                THEN <<Message("The dataset contains missing values", 0, <<>>)>>
                ELSE <<>>)
            \o (IF \E j \in 1..Len(df.columns) :
                      startswith(lower(df.columns[j]),
                                 <<"u", "n", "n", "a", "m", "e", "d", ":">>)
                THEN <<Message("missing proper headers", 0, <<>>)>>
                ELSE <<>>)
            \o Concat([j \in 1..n |-> column_recommendations(report.column_details[j])])
    IN IF recommendations = <<>> THEN <<GoodNews>> ELSE recommendations

(***************************************************************************)
(* DataIssueDetector (detection.py) on the raw loaded data.                *)
(***************************************************************************)
\* the keys of a record ordered as json.dumps(sort_keys=True) orders them
SortedKeys(item) ==
    LET ks == ItemKeys(item)
        rank(k) == Cardinality({x \in Range(ks) : StrLess(x, k)}) + 1
    IN [r \in 1..Len(ks) |-> CHOOSE k \in Range(ks) : rank(k) = r]

\* json.dumps(item, sort_keys=True): the key/value pairs the record carries,
\* by ascending key; a key the record lacks leaves no trace
json_dumps(item) ==
    LET ks == SortedKeys(item)
    IN [r \in 1..Len(ks) |-> <<ks[r], item[KeyIndex(ks[r])]>>]

\* lines 40-48: records whose serialization was seen before
json_dup_count(records) ==
    Cardinality({i \in 1..Len(records) :
                    \E k \in 1..(i - 1) : json_dumps(records[k]) = json_dumps(records[i])})

\* detect_duplicates()
detect_duplicates(ft, file) ==
    IF ft = "csv" THEN CountTrue(duplicated(read_csv(file)))
    ELSE json_dup_count(file)

\* lines 26-32: key -> the indices (from 0) of the records that carry the key
\* with an explicit null, ascending; keys never seen with a null are left out
json_missing(records) ==
    LET idx(k) == PickIdx([i \in 1..Len(records) |-> i - 1],
                          [i \in 1..Len(records) |-> records[i][KeyIndex(k)] = Null], 1)
        keys == {k \in Range(JsonKeys) : idx(k) # <<>>}
    IN [k \in keys |-> idx(k)]

\* detect_missing_values(): for delimited text, column -> number of nulls
detect_missing_values(ft, file) ==
    IF ft = "csv"
    THEN LET d == read_csv(file)
         IN [k \in Range(d.columns) |->
                isnull_sum(d, CHOOSE j \in 1..Len(d.columns) : d.columns[j] = k)]
    ELSE json_missing(file)

(***************************************************************************)
(* preview_cleaning, lines 445-498.                                        *)
(***************************************************************************)
\* lines 460-477: the advisory text of a column
predicted_fill(dtype, missing_count, total, thr) ==
    IF missing_count > 0 /\ MissingBelow(missing_count, total, thr)
    THEN IF dtype = "num"
         THEN (IF 2 * missing_count > total
               THEN "median (high missing rate)" ELSE "mean")
         ELSE (IF 2 * missing_count > total
               THEN "Unknown (high missing rate)" ELSE "mode")
    ELSE IF MissingAtLeast(missing_count, total, thr)
         THEN "column will be dropped"
         ELSE "no action needed"

\* lines 446-457: the analysis of the column at position j of the loaded frame
col_analysis(df, j, thr, fs) ==
    LET missing_count == isnull_sum(df, j)
    IN [column_name |-> df.columns[j],
        data_type |-> df.dtypes[j],
        missing_count |-> missing_count,
        unique_values |-> nunique(ColumnAt(df, j)),
        will_be_dropped |->
            MissingAtLeast(missing_count, NRows(df), thr) /\ fs # "fill",
        fill_strategy |-> predicted_fill(df.dtypes[j], missing_count, NRows(df), thr)]

\* what one pass of the loop appends to columns_to_drop: the label once in
\* the branch of line 475 and once more at line 483
drop_entries(a) ==
    (IF a.fill_strategy = "column will be dropped" THEN <<a.column_name>> ELSE <<>>)
    \o (IF a.will_be_dropped THEN <<a.column_name>> ELSE <<>>)

\* line 486
fill_entries(a) ==
    IF ~a.will_be_dropped /\ a.missing_count > 0 THEN <<a.column_name>> ELSE <<>>

\* (high / columns * 100) formatted with one decimal, in tenths of a percent
estimated_improvement(high, columns) ==
    (2 * high * 1000 + columns) \div (2 * columns)

\* the preview built for a loaded frame.  It fails when the frame has no
\* column (division of line 497) or a repeated label (df[col] has no dtype).
cleaning_preview(df, thr, fs) ==
    LET n == Len(df.columns)
        analysis == Tup([j \in 1..n |-> col_analysis(df, j, thr, fs)], 1, n)
        to_drop == Concat([j \in 1..n |-> drop_entries(analysis[j])])
        to_fill == Concat([j \in 1..n |-> fill_entries(analysis[j])])
        high_missing_columns == Len(to_drop)
    IN IF n = 0 \/ HasDuplicateLabels(df)
       THEN [raised |-> TRUE]
       ELSE [raised |-> FALSE,
             missing_value_analysis |-> analysis,
             columns_to_drop |-> to_drop,
             columns_to_fill |-> to_fill,
             summary |->
                 [total_missing_columns |->
                      Cardinality({j \in 1..n : isnull_sum(df, j) > 0}),
                  high_missing_columns |-> high_missing_columns,
                  columns_after_cleaning |-> n - high_missing_columns,
                  estimated_improvement |->
                      estimated_improvement(high_missing_columns, n)]]

(***************************************************************************)
(* The service: one uploaded file, and the requests made on it.            *)
(***************************************************************************)
VARIABLES
    file_type,   \* "csv" or "json"
    data,        \* the parsed content of the uploaded file
    df,          \* the frame the last handler loaded, as the handler left it
    op,          \* the last request served
    out          \* what it produced

vars == <<file_type, data, df, op, out>>

Init ==
    /\ \/ file_type = "csv" /\ data \in CsvFiles
       \/ file_type = "json" /\ data \in JsonFiles
    /\ df = NoFrame
    /\ op = "idle"
    /\ out = [raised |-> FALSE]

\* upload_and_analyze, lines 257-311
UploadAndAnalyze ==
    /\ op = "idle"
    /\ \E loaded \in {LoadFrame(file_type, data)} :
          /\ op' = "analyze"
          /\ df' = loaded
          /\ \E report \in {generate_data_report(loaded)} :
                out' = IF report.raised THEN report
                       ELSE [raised |-> FALSE,
                             overview |-> report.overview,
                             column_details |-> report.column_details,
                             recommendations |->
                                 generate_recommendations(loaded, report)]
    /\ UNCHANGED <<file_type, data>>

\* lines 359-365 of clean_file: the response after the cleaning call
clean_summary(r, thr, fs) ==
    LET original_columns == Len(r.input.columns)
        final_columns == Len(r.cleaned.columns)
    IN IF r.raised
       THEN [raised |-> TRUE, missing_threshold |-> thr, fill_strategy |-> fs]
       ELSE [raised |-> FALSE,
             missing_threshold |-> thr,
             fill_strategy |-> fs,
             cleaned |-> r.cleaned,
             kept |-> r.kept,
             original_columns |-> original_columns,
             final_columns |-> final_columns,
             dropped_columns |-> original_columns - final_columns]

\* clean_file, lines 314-393
CleanFile(thr, fs) ==
    /\ op = "idle"
    /\ \E r \in {perform_standard_cleaning(LoadFrame(file_type, data), thr, fs)} :
          /\ op' = "clean"
          /\ df' = r.input
          /\ out' = clean_summary(r, thr, fs)
    /\ UNCHANGED <<file_type, data>>

\* the frame perform_standard_cleaning returned is handed back to the core:
\* generate_data_report profiles it and perform_standard_cleaning cleans it
\* with the same configuration
CleanAgain ==
    /\ op = "clean"
    /\ ~out.raised
    /\ \E r \in {perform_standard_cleaning(out.cleaned, out.missing_threshold,
                                           out.fill_strategy)} :
          /\ op' = "clean_again"
          /\ out' = [raised |-> r.raised,
                     missing_threshold |-> out.missing_threshold,
                     fill_strategy |-> out.fill_strategy,
                     first |-> out.cleaned,
                     report |-> generate_data_report(out.cleaned),
                     cleaned |-> r.cleaned,
                     kept |-> r.kept]
    /\ UNCHANGED <<file_type, data, df>>

\* preview_cleaning, lines 396-503
PreviewCleaning(thr, fs) ==
    /\ op = "idle"
    /\ \E loaded \in {LoadFrame(file_type, data)} :
          \E preview \in {cleaning_preview(loaded, thr, fs)} :
              /\ op' = "preview"
              /\ df' = loaded
              /\ out' = [raised |-> preview.raised,
                         missing_threshold |-> thr,
                         fill_strategy |-> fs,
                         preview |-> preview]
    /\ UNCHANGED <<file_type, data>>

\* DataIssueDetector.detect_missing_values on the same file
DetectMissingValues ==
    /\ op = "idle"
    /\ op' = "detect_missing"
    /\ out' = [raised |-> FALSE, issues |-> detect_missing_values(file_type, data)]
    /\ UNCHANGED <<file_type, data, df>>

\* DataIssueDetector.detect_duplicates on the same file
DetectDuplicates ==
    /\ op = "idle"
    /\ op' = "detect_duplicates"
    /\ out' = [raised |-> FALSE, dup_count |-> detect_duplicates(file_type, data)]
    /\ UNCHANGED <<file_type, data, df>>

Next ==
    \/ UploadAndAnalyze
    \/ \E thr \in Thresholds, fs \in FillStrategies : CleanFile(thr, fs)
    \/ CleanAgain
    \/ \E thr \in Thresholds, fs \in FillStrategies : PreviewCleaning(thr, fs)
    \/ DetectMissingValues
    \/ DetectDuplicates

Spec == Init /\ [][Next]_vars

(***************************************************************************)
(* Properties.                                                             *)
(***************************************************************************)
\* the frame the handlers load from the uploaded file
Loaded == LoadFrame(file_type, data)

\* the returned frame carries exactly the columns listed in kept, renamed
KeptDescribesCleaned ==
    LET columns == Loaded.columns
    IN /\ Len(out.cleaned.columns) = Len(out.kept)
       /\ \A k \in 1..Len(out.kept) :
             /\ out.cleaned.columns[k] = clean_name(columns[out.kept[k]])
             /\ k > 1 => out.kept[k - 1] < out.kept[k]

\* the missing fraction of column j over the distinct rows of d reaches thr
HighMissingAfterDedup(d, j, thr) ==
    LET distinct == Range(d.rows)
        total == Cardinality(distinct)
        missing == Cardinality({r \in distinct : r[j].t = "null"})
    IN total > 0 /\ missing * thr[2] >= thr[1] * total

C2_Idempotent ==
    op = "clean_again" => (~out.raised /\ out.cleaned = out.first)

\* C3: perform_standard_cleaning leaves its input table as it was: same
\* rows, cells, labels and column order after the call.
C3_InputNotMutated ==
    op = "clean" => df = Loaded

\* a cleaning that removed rows and renamed columns
C3_Witness ==
    /\ op = "clean" /\ ~out.raised
    /\ NRows(out.cleaned) < NRows(df)
    /\ Len(out.cleaned.columns) = Len(df.columns)
    /\ out.cleaned.columns # df.columns

\* C4: the duplicate count of DataIssueDetector.detect_duplicates equals the
\* overview.duplicate_rows of generate_data_report on the same input.
C4_DuplicateCountsAgree ==
    op = "detect_duplicates" =>
        LET report == generate_data_report(Loaded)
        IN report.raised \/ out.dup_count = report.overview.duplicate_rows

\* C5: the preview's will_be_dropped flag of a column is true if and only if
\* perform_standard_cleaning, on the same table and configuration, drops it.
C5_PreviewMatchesEngine ==
    (op = "preview" /\ ~out.raised) =>
        LET r == perform_standard_cleaning(Loaded, out.missing_threshold,
                                           out.fill_strategy)
        IN /\ ~r.raised
           /\ \A j \in 1..Len(Loaded.columns) :
                 out.preview.missing_value_analysis[j].will_be_dropped
                     <=> (j \notin Range(r.kept))

\* key -> ascending indices (from 0) of the records where the key is null or
\* absent, over the union of the records' keys, keys without such a record
\* left out
MissingWithAbsentAsNull(records) ==
    LET n == Len(records)
        carried == {k \in Range(JsonKeys) :
                       \E i \in 1..n : records[i][KeyIndex(k)] # Absent}
        idx(k) == PickIdx([i \in 1..n |-> i - 1],
                          [i \in 1..n |-> records[i][KeyIndex(k)] \in {Null, Absent}], 1)
    IN [k \in {c \in carried : idx(c) # <<>>} |-> idx(k)]

\* C6: for a list of records detect_missing_values maps every column of the
\* union of the keys to the ascending row indices where it is null, an
\* absent key counting as null, columns without a missing entry left out.
C6_AbsentKeyCountsAsMissing ==
    (op = "detect_missing" /\ file_type = "json") =>
        out.issues = MissingWithAbsentAsNull(data)

RECURSIVE SumMissingValues(_)
SumMissingValues(details) ==
    IF details = <<>> THEN 0
    ELSE Head(details).missing_values + SumMissingValues(Tail(details))

\* C7: in a Report, overview.total_missing_values is the sum of the
\* missing_values of the entries of column_details.
C7_TotalMissingIsSum ==
    (op = "analyze" /\ ~out.raised) =>
        out.overview.total_missing_values = SumMissingValues(out.column_details)

\* a report of a table with nulls in the first row of both columns
C7_Witness ==
    /\ op = "analyze" /\ ~out.raised
    /\ Len(out.column_details) = 2
    /\ \A j \in 1..2 : isnull(df.rows[1][j])
    /\ out.overview.total_missing_values >= 3

\* C8: profiling a table with columns and no row yields a Report whose
\* columns all have missing_percentage 0; it does not raise.
C8_ZeroRowsProfiled ==
    (op = "analyze" /\ NRows(Loaded) = 0 /\ Len(Loaded.columns) > 0) =>
        /\ ~out.raised
        /\ \A j \in 1..Len(out.column_details) :
              out.column_details[j].missing_percentage = 0

\* C9: with missing_threshold = 1.0 the cleaning drops no column, whatever
\* the table and the fill_strategy.
C9_ThresholdOneDropsNothing ==
    (op = "clean" /\ ~out.raised /\ out.missing_threshold = <<1, 1>>) =>
        /\ Len(out.cleaned.columns) = Len(Loaded.columns)
        /\ out.dropped_columns = 0

\* the column at position j is numeric and null in every row (at least one)
AllNullNumeric(d, j) ==
    /\ NRows(d) >= 1
    /\ d.dtypes[j] = "num"
    /\ \A i \in 1..NRows(d) : isnull(d.rows[i][j])

\* the column at position j of the loaded frame is in the cleaned frame and
\* holds 0 in every row
PresentAllZero(j) ==
    \E k \in 1..Len(out.kept) :
        /\ out.kept[k] = j
        /\ \A i \in 1..NRows(out.cleaned) : out.cleaned.rows[i][k] = Num(0, 1)

C11_RepeatedLabelsProfiled ==
    (op = "clean_again" /\ HasDuplicateLabels(out.first)) =>
        /\ ~out.report.raised
        /\ Len(out.report.column_details) = Len(out.first.columns)
        /\ \A j \in 1..Len(out.first.columns) :
              LET details == out.report.column_details[j]
              IN /\ details.column = out.first.columns[j]
                 /\ details.has_problem
                 /\ details.reasons # <<>>
                 /\ details.reasons[Len(details.reasons)].kind = "Duplicate column name"

\* none of the rules of generate_recommendations applies to the report in
\* out and the frame in df
NoRuleFired ==
    /\ out.overview.duplicate_rows = 0
    /\ out.overview.total_missing_values = 0
    /\ \A j \in 1..Len(df.columns) :
          ~startswith(lower(df.columns[j]), <<"u", "n", "n", "a", "m", "e", "d", ":">>)
    /\ \A j \in 1..Len(out.column_details) :
          /\ out.column_details[j].missing_percentage <= 2000
          /\ ~out.column_details[j].mixed_capitalization
          /\ ~out.column_details[j].is_numeric_like
          /\ out.column_details[j].outlier_count = 0

\* C12: generate_recommendations returns a non-empty list; the positive
\* "no major issues" message is in it if and only if no rule fired, and it
\* is then the only element.
C12_GoodNewsIffNoRuleFired ==
    (op = "analyze" /\ ~out.raised) =>
        /\ out.recommendations # <<>>
        /\ (GoodNews \in Range(out.recommendations)) <=> NoRuleFired
        /\ NoRuleFired => out.recommendations = <<GoodNews>>

\* a report of two distinct complete rows, for which the only recommendation
\* is the positive message
C12_Witness ==
    /\ op = "analyze" /\ ~out.raised
    /\ NRows(df) = 2 /\ Len(df.columns) = 2
    /\ NoRuleFired
    /\ out.recommendations = <<GoodNews>>

\* a report for which the outlier, capitalization and header rules fired
C12_RulesFired ==
    /\ op = "analyze" /\ ~out.raised
    /\ \E j \in 1..Len(out.column_details) : out.column_details[j].outlier_count > 0
    /\ \E j \in 1..Len(out.column_details) : out.column_details[j].mixed_capitalization
    /\ Len(out.recommendations) >= 3
    /\ GoodNews \notin Range(out.recommendations)

\* a report of records whose text is numeric-looking
C12_NumericLike ==
    /\ op = "analyze" /\ ~out.raised
    /\ \E j \in 1..Len(out.column_details) : out.column_details[j].is_numeric_like
    /\ GoodNews \notin Range(out.recommendations)

\* the result of perform_standard_cleaning on the loaded frame under the
\* configuration of the request in out
EngineResult ==
    perform_standard_cleaning(Loaded, out.missing_threshold, out.fill_strategy)

\* C13: for a column that is not all-null, has a missing value, a missing
\* fraction below the threshold (so that the preview names a fill method)
\* and is dropped neither by the preview nor by the engine, the fill method
\* the preview names is the one the engine applies: the mean for a numeric
\* column, the most frequent value for a text column.
C13_PreviewNamesEngineFill ==
    (op = "preview" /\ ~out.raised) =>
        \A j \in 1..Len(Loaded.columns) :
            LET a == out.preview.missing_value_analysis[j]
                cells == ColumnAt(Loaded, j)
            IN (/\ a.missing_count > 0
                /\ dropna(cells) # <<>>
                /\ MissingBelow(a.missing_count, NRows(Loaded), out.missing_threshold)
                /\ ~a.will_be_dropped
                /\ ~EngineResult.raised
                /\ j \in Range(EngineResult.kept))
               => a.fill_strategy = (IF a.data_type = "num" THEN "mean" ELSE "mode")

\* the number of columns the preview classifies will_be_dropped
WillBeDroppedCount ==
    Cardinality({j \in 1..Len(Loaded.columns) :
                    out.preview.missing_value_analysis[j].will_be_dropped})

\* C14: in the preview summary the estimated reduction is the number of
\* columns classified will_be_dropped over the number of columns, times 100,
\* so within [0, 100], and columns_after_cleaning is the number of columns
\* minus the number of columns classified will_be_dropped.
C14_SummaryCountsDroppedColumns ==
    (op = "preview" /\ ~out.raised) =>
        LET n == Len(Loaded.columns)
            summary == out.preview.summary
        IN /\ summary.estimated_improvement = estimated_improvement(WillBeDroppedCount, n)
           /\ summary.estimated_improvement >= 0
           /\ summary.estimated_improvement <= 1000
           /\ summary.columns_after_cleaning = n - WillBeDroppedCount

\* C15: in the preview every label occurs at most once in columns_to_drop
\* and columns_to_fill taken together.
C15_ColumnListedOnce ==
    (op = "preview" /\ ~out.raised) =>
        LET listed == out.preview.columns_to_drop \o out.preview.columns_to_fill
        IN \A i, k \in 1..Len(listed) : listed[i] = listed[k] => i = k

\* C16: for a table with at least one row perform_standard_cleaning returns
\* a table without a null cell: where a retained numeric column was null the
\* cell holds the column's mean, its median or 0, and where a retained text
\* column was null it holds the column's (trimmed) mode, or 'Unknown' when
\* the column had no value.
C16_NoNullAfterCleaning ==
    op = "clean" =>
        LET loaded == Loaded
            d == drop_duplicates(loaded)
        IN NRows(loaded) >= 1 =>
              /\ ~out.raised
              /\ NRows(out.cleaned) = NRows(d)
              /\ \A k \in 1..Len(out.kept), i \in 1..NRows(d) :
                    LET j == out.kept[k]
                        cell == out.cleaned.rows[i][k]
                        cells == ColumnAt(d, j)
                    IN /\ ~isnull(cell)
                       /\ isnull(d.rows[i][j]) =>
                             IF d.dtypes[j] = "num"
                             THEN cell \in {mean(cells), median(cells), Num(0, 1)}
                             ELSE IF dropna(cells) = <<>>
                                  THEN cell = Str(Unknown)
                                  ELSE cell = Str(strip(mode0(dropna(cells)).s))

\* a 'fill' cleaning that kept two rows and two columns, each column null in
\* some row of the loaded table
C16_Witness ==
    /\ op = "clean" /\ ~out.raised /\ out.fill_strategy = "fill"
    /\ NRows(out.cleaned) >= 2
    /\ Len(out.kept) = 2
    /\ \A j \in 1..2 : \E i \in 1..NRows(Loaded) : isnull(Loaded.rows[i][j])

====
